---- MODULE Spec2Model ----
(***************************************************************************)
(* Valora: the order-to-invoice pipeline.                                  *)
(*                                                                         *)
(*   src/src/app.py                          main (polling loop)           *)
(*   src/src/algorithms/email_processing.py  process_emails and its stages *)
(*   src/src/algorithms/invoice.py           generate_invoice_pdf          *)
(*   src/src/api/gmail.py                    connect_to_email, fetch_emails*)
(*                                                                         *)
(* Text is a sequence of one-character strings.  Amounts are integers in   *)
(* units of 1/Scale, so the decimal arithmetic of the model is exact; it   *)
(* agrees with the double arithmetic of the code on every displayed        *)
(* 2-decimal value except at exact rounding ties, which the enumerated     *)
(* inputs avoid.                                                           *)
(***************************************************************************)
EXTENDS Integers, Sequences, FiniteSets, TLC

(* ------------------------------ bounds -------------------------------- *)
\* longest item list enumerated item by item
MaxLen == 2
\* longest list of identical items enumerated (covers both layout thresholds)
MaxRows == 31
\* most matching messages the mailbox holds
MaxMsgs == 2
\* most times the process is started
MaxRuns == 2

(* --------------------------- fixed-point unit -------------------------- *)
\* amounts are counted in hundredths of a cent: four decimal places
Scale == 100 * 100

(* ------------------------------ text ----------------------------------- *)
Digits == {"0", "1", "2", "3", "4", "5", "6", "7", "8", "9"}

DigitChar == <<"0", "1", "2", "3", "4", "5", "6", "7", "8", "9">>

DigitVal(c) == CHOOSE d \in 0..9 : DigitChar[d + 1] = c

RECURSIVE IntOf(_)
\* value of a sequence of decimal digits
IntOf(ds) == IF ds = <<>> THEN 0
             ELSE IntOf(SubSeq(ds, 1, Len(ds) - 1)) * 10 + DigitVal(ds[Len(ds)])

RECURSIVE IntToDigits(_)
\* decimal digits of a natural number
IntToDigits(n) == IF n < 10 THEN <<DigitChar[n + 1]>>
                  ELSE Append(IntToDigits(n \div 10), DigitChar[(n % 10) + 1])

AllDigits(s) == \A i \in 1..Len(s) : s[i] \in Digits

Unsigned(s) == IF Len(s) > 0 /\ s[1] \in {"-", "+"} THEN Tail(s) ELSE s

Negative(s) == Len(s) > 0 /\ s[1] = "-"

RECURSIVE StripDollar(_)
\* str.replace("$", ""): every "$" is removed
StripDollar(s) == IF s = <<>> THEN <<>>
                  ELSE IF Head(s) = "$" THEN StripDollar(Tail(s))
                  ELSE <<Head(s)>> \o StripDollar(Tail(s))

\* int(str): an optional sign and at least one digit, nothing else
IsIntLiteral(s) == Len(Unsigned(s)) > 0 /\ AllDigits(Unsigned(s))

IntLiteral(s) == IF Negative(s) THEN 0 - IntOf(Unsigned(s)) ELSE IntOf(Unsigned(s))

\* position of the decimal point in s, 0 when there is none
DotAt(s) == IF \E i \in 1..Len(s) : s[i] = "."
            THEN CHOOSE i \in 1..Len(s) : s[i] = "." /\ \A j \in 1..(i - 1) : s[j] # "."
            ELSE 0

IntPart(s) == IF DotAt(s) = 0 THEN s ELSE SubSeq(s, 1, DotAt(s) - 1)

FracPart(s) == IF DotAt(s) = 0 THEN <<>> ELSE SubSeq(s, DotAt(s) + 1, Len(s))

\* float(str): an optional sign, digits with at most one point, one digit at least
IsFloatLiteral(s) ==
    LET u == Unsigned(s)
    IN  /\ AllDigits(IntPart(u))
        /\ AllDigits(FracPart(u))
        /\ Len(IntPart(u)) + Len(FracPart(u)) > 0

\* the fraction digits as a count of 1/Scale
FracValue(ds) ==
    LET padded == ds \o <<"0", "0", "0", "0">>
    IN  IntOf(SubSeq(padded, 1, 4))

FloatLiteral(s) ==
    LET u == Unsigned(s)
        v == IntOf(IntPart(u)) * Scale + FracValue(FracPart(u))
    IN  IF Negative(s) THEN 0 - v ELSE v

Abs(x) == IF x < 0 THEN 0 - x ELSE x

\* hundredths nearest to x (x in 1/Scale), ties to the even hundredth
RoundCents(x) ==
    LET per == Scale \div 100
        q   == x \div per
        r   == x % per
    IN  IF 2 * r < per THEN q
        ELSE IF 2 * r > per THEN q + 1
        ELSE IF q % 2 = 0 THEN q ELSE q + 1

\* f"{x:.1f}" in place of f"{x:.2f}": one fraction digit
Fixed1(x) ==
    LET c == RoundCents(Abs(x))
    IN  (IF x < 0 THEN <<"-">> ELSE <<>>)
        \o IntToDigits(c \div 100)
        \o <<".">>
        \o <<DigitChar[((c \div 10) % 10) + 1]>>

\* f"{x:.2f}": sign, integer digits, point, two fraction digits
Fixed2(x) ==
    LET c == RoundCents(Abs(x))
    IN  (IF x < 0 THEN <<"-">> ELSE <<>>)
        \o IntToDigits(c \div 100)
        \o <<".">>
        \o <<DigitChar[((c \div 10) % 10) + 1], DigitChar[(c % 10) + 1]>>

\* f"${x:.2f}"
Money(x) == <<"$">> \o Fixed2(x)

(* --------------------------- JSON values ------------------------------- *)
\* a JSON string, a JSON number (in 1/Scale), null, and a key that is absent
Str(s) == [t |-> "str", s |-> s, n |-> 0]

Num(k) == [t |-> "num", s |-> <<>>, n |-> k]

Null == [t |-> "null", s |-> <<>>, n |-> 0]

Absent == [t |-> "absent", s |-> <<>>, n |-> 0]

Item(nombre, cantidad, costo) ==
    [nombre |-> nombre, cantidad |-> cantidad, costo |-> costo]

(* ----------------------- invoice.py: pricing --------------------------- *)
\* product.get("cantidad", 1): the fallback of the except branch as the default
GetCantidadOne(product) ==
    IF product.cantidad.t = "absent" THEN Num(Scale) ELSE product.cantidad

\* product.get("cantidad", 0)
GetCantidad(product) ==
    IF product.cantidad.t = "absent" THEN Num(0) ELSE product.cantidad

\* product.get("costo", "0")
GetCosto(product) ==
    IF product.costo.t = "absent" THEN Str(<<"0">>) ELSE product.costo

\* .replace("$", "") exists on strings only
CostoRaises(product) == GetCosto(product).t # "str"

\* int(None) raises TypeError, which "except ValueError" lets through
CantidadRaises(product) == GetCantidad(product).t = "null"

\* int(x) truncates a number towards zero
Truncate(k) == IF k < 0 THEN 0 - ((0 - k) \div Scale) ELSE k \div Scale

\* CoerceCantidad with the fallback of the absent key used for garbage too
CoerceCantidadZero(product) ==
    LET v == GetCantidad(product)
    IN  IF v.t = "num" THEN Truncate(v.n)
        ELSE IF IsIntLiteral(v.s) THEN IntLiteral(v.s)
        ELSE 0

\* try: int(cantidad) except ValueError: 1
CoerceCantidad(product) ==
    LET v == GetCantidad(product)
    IN  IF v.t = "num" THEN Truncate(v.n)
        ELSE IF IsIntLiteral(v.s) THEN IntLiteral(v.s)
        ELSE 1

\* try: float(costo) except ValueError: 1.0, the "$" removed first
CoerceCosto(product) ==
    LET s == StripDollar(GetCosto(product).s)
    IN  IF IsFloatLiteral(s) THEN FloatLiteral(s) ELSE Scale

\* the exception one loop iteration raises, "none" when it completes
ItemError(product) ==
    IF CostoRaises(product) THEN "AttributeError"
    ELSE IF CantidadRaises(product) THEN "TypeError"
    ELSE "none"

\* total = cantidad * costo, at full precision
LineTotal(product) == CoerceCantidad(product) * CoerceCosto(product)

\* table_data.append([nombre, cantidad, f"${costo:.2f}", f"${total:.2f}"])
TableRow(product) ==
    [nombre   |-> product.nombre,
     cantidad |-> CoerceCantidad(product),
     precio   |-> Money(CoerceCosto(product)),
     total    |-> Money(LineTotal(product))]

\* the header row; only its presence matters to the layout
HeaderRow ==
    [nombre |-> "Producto", cantidad |-> 0, precio |-> <<>>, total |-> <<>>]

\* index of the first product whose iteration raises, 0 when none does
FirstRaising(productos) ==
    IF \E i \in 1..Len(productos) : ItemError(productos[i]) # "none"
    THEN CHOOSE i \in 1..Len(productos) :
            /\ ItemError(productos[i]) # "none"
            /\ \A j \in 1..(i - 1) : ItemError(productos[j]) = "none"
    ELSE 0

\* table_data once the loop has run over every product
TableData(productos) ==
    <<HeaderRow>> \o [i \in 1..Len(productos) |-> TableRow(productos[i])]

RECURSIVE SumTotals(_)
\* sum(float(row[3].replace("$", "")) for row in rows)
SumTotals(rows) ==
    IF rows = <<>> THEN 0
    ELSE FloatLiteral(StripDollar(Head(rows).total)) + SumTotals(Tail(rows))

(* ----------------------- invoice.py: layout ---------------------------- *)
\* width, height = letter
PageHeight == 792
\* title_y_position = height - 50
TitleDrop == 50
\* table_y_position = title_y_position - 60
TableDrop == 60
\* row_height = 20
row_height == 20
\* if table_y_position - table_height < 50
BottomMargin == 50
\* table.drawOn(c, 50, table_y_position - 300), and the same 300 in the subtotal line
DrawDrop == 300
\* the gap under the table and the step between the three totals lines
LineStep == 20
\* iva = subtotal * 0.16
IvaPercent == 16

title_y_position == PageHeight - TitleDrop

IssuedToDrop == 60

PayToDrop == 100

issued_to_y_position == title_y_position - IssuedToDrop

pay_to_y_position == issued_to_y_position - PayToDrop

\* the baseline of the last line of the "Pay To" block
pay_to_last_line_y == pay_to_y_position - 3 * LineStep

table_y_position == title_y_position - TableDrop

\* table_height = len(table_data) * row_height
TableHeight(table_data) == Len(table_data) * row_height

\* Overflows without the bottom margin
OverflowsPageOnly(table_height) == table_y_position - table_height < 0

\* the test that raises "Table is too large to fit on one page"
Overflows(table_height) == table_y_position - table_height < BottomMargin

subtotal_y_position(table_height) ==
    table_y_position - DrawDrop - table_height - LineStep

iva_y_position(table_height) == subtotal_y_position(table_height) - LineStep

total_y_position(table_height) == iva_y_position(table_height) - LineStep

\* the y handed to table.drawOn
table_draw_y == table_y_position - DrawDrop

\* drawOn puts the lower left corner of the table at table_draw_y, so the
\* table reaches up from there by its height
table_top_y(table_height) == table_draw_y + table_height

\* Iva charged on the subtotal and on itself
IvaCompounded(subtotal) == (subtotal * (IvaPercent + 1)) \div 100

\* iva = subtotal * 0.16
Iva(subtotal) == (subtotal * IvaPercent) \div 100

(* ------------------ invoice.py: generate_invoice_pdf ------------------- *)
\* Raised with the canvas saved on the way out
RaisedAndSaved(error, at, canvas) ==
    [error |-> error, at |-> at, canvas |-> canvas, saved |-> canvas,
     table_data |-> <<>>, table_height |-> 0,
     subtotal |-> 0, iva |-> 0, total |-> 0,
     subtotal_y |-> 0, iva_y |-> 0, total_y |-> 0, table_y |-> 0,
     shown |-> <<>>]

\* what one call leaves behind when it raises before anything is computed
Raised(error, at, canvas) ==
    [error |-> error, at |-> at, canvas |-> canvas, saved |-> FALSE,
     table_data |-> <<>>, table_height |-> 0,
     subtotal |-> 0, iva |-> 0, total |-> 0,
     subtotal_y |-> 0, iva_y |-> 0, total_y |-> 0, table_y |-> 0,
     shown |-> <<>>]

\* the whole of generate_invoice_pdf on the text the matcher returned:
\* matched_products is [kind, has, productos], kind "prose" (no JSON), "array"
\* (JSON, top level not an object) or "object"; has says the key "productos"
\* is there
generate_invoice_pdf(matched_products) ==
    IF matched_products.kind = "prose"
    THEN Raised("ValueError", "json", FALSE)
    ELSE IF matched_products.kind # "object"
    THEN Raised("AttributeError", "get", FALSE)
    ELSE
    LET productos    == IF matched_products.has THEN matched_products.productos
                        ELSE <<>>
        bad          == FirstRaising(productos)
        table_data   == TableData(productos)
        table_height == TableHeight(table_data)
        subtotal     == SumTotals(Tail(table_data))
        iva          == Iva(subtotal)
    IN  IF bad # 0 THEN Raised(ItemError(productos[bad]), "pricing", TRUE)
        ELSE IF Overflows(table_height) THEN
            [Raised("ValueError", "layout", TRUE) EXCEPT
                !.table_data = table_data, !.table_height = table_height]
        ELSE
            [error |-> "none", at |-> "done", canvas |-> TRUE, saved |-> TRUE,
             table_data |-> table_data, table_height |-> table_height,
             subtotal |-> subtotal, iva |-> iva, total |-> subtotal + iva,
             subtotal_y |-> subtotal_y_position(table_height),
             iva_y |-> iva_y_position(table_height),
             total_y |-> total_y_position(table_height),
             table_y |-> table_draw_y,
             shown |-> <<Money(subtotal), Money(iva), Money(subtotal + iva)>>]

(* ------------------------------ inputs --------------------------------- *)
\* sequences over S of length 0..n
SeqsUpTo(S, n) == UNION {[1..k -> S] : k \in 0..n}

Prose == [kind |-> "prose", has |-> FALSE, productos |-> <<>>]

Array == [kind |-> "array", has |-> FALSE, productos |-> <<>>]

NoKey == [kind |-> "object", has |-> FALSE, productos |-> <<>>]

Object(productos) == [kind |-> "object", has |-> TRUE, productos |-> productos]

\* tests/test_invoice.py, SAMPLE_MATCHED_PRODUCTS_JSON
Laptop == Item("LAPTOP HP", Str(<<"5">>), Str(<<"$", "8", "0", "0", ".", "0", "0">>))

Impresora ==
    Item("IMPRESORA EPSON", Str(<<"3">>), Str(<<"$", "2", "0", "0", ".", "0", "0">>))

Monitor == Item("MONITOR DELL", Str(<<"2">>), Str(<<"$", "3", "0", "0", ".", "0", "0">>))

SampleOrder == <<Laptop, Impresora, Monitor>>

\* tests/test_invoice.py, large_products: one item of the 100
LargeOrderItem ==
    Item("Product", Str(<<"1">>), Str(<<"$", "1", "0", ".", "0", "0">>))

\* range(100) in that test
LargeOrderRows == 100

\* the forms a quantity and a cost can take in the matcher's JSON
Garbage == Item("LAPTOP HP", Str(<<"a", "b", "c">>), Str(<<"$", "-">>))

SubCent == Item("LAPTOP HP", Str(<<"1">>), Str(<<"$", "0", ".", "0", "0", "4">>))

NullCantidad == [Laptop EXCEPT !.cantidad = Null]

NumCantidad == [Laptop EXCEPT !.cantidad = Num(2 * Scale)]

DecimalCantidad == [Laptop EXCEPT !.cantidad = Str(<<"2", ".", "5">>)]

NullCosto == [Laptop EXCEPT !.costo = Null]

NumCosto == [Laptop EXCEPT !.costo = Num(5 * Scale)]

NoFields == Item("LAPTOP HP", Absent, Absent)

NoCantidad == [Laptop EXCEPT !.cantidad = Absent]

NoCosto == [Laptop EXCEPT !.costo = Absent]

Items == {Laptop, Impresora, Monitor, Garbage, SubCent, NullCantidad, NumCantidad,
          DecimalCantidad, NullCosto, NumCosto, NoFields, NoCantidad, NoCosto}

Copies(n, item) == [i \in 1..n |-> item]

ItemLists == SeqsUpTo(Items, MaxLen)
             \cup {Copies(n, LargeOrderItem) : n \in 0..MaxRows}
             \cup {Copies(LargeOrderRows, LargeOrderItem), SampleOrder}

\* what match_products_with_costs can return: any text at all
MatcherResponses == {Prose, Array, NoKey} \cup {Object(l) : l \in ItemLists}

\* the responses the whole pipeline is run on: one of each kind of outcome
PipelineResponses ==
    {Prose, Array, NoKey, Object(<<>>), Object(SampleOrder), Object(<<Laptop>>),
     Object(<<Garbage>>), Object(<<NullCosto>>),
     Object(Copies(MaxRows, LargeOrderItem))}

\* an extracted item has a name and a quantity and no cost yet
Extracted(item) == [item EXCEPT !.costo = Absent]

\* what extract_products_from_email can return
ExtractResponses ==
    {Prose, Object(<<>>), Object([i \in 1..Len(SampleOrder) |-> Extracted(SampleOrder[i])])}

\* the data of one fetched message: response parts, tuples and plain bytes
UsualData == <<"tuple", "bytes">>

DataShapes == {UsualData, <<"bytes">>, <<"tuple", "bytes", "tuple", "bytes">>}

(* ------------------------------ state ---------------------------------- *)
VARIABLES
    pc,                   \* where main is: "main", a stage of process_emails, "sleep", "crashed"
    crashed,              \* the call whose exception left main, "none" while it runs
    runs,                 \* how many times the process was started
    imap_open,            \* inbox sessions this process opened and has not closed
    msgs,                 \* fetch_emails' result, newest first
    parts,                \* what "for sent in msg" still has to visit
    cur,                  \* id of the message being processed, 0 when none
    calls,                \* the stages this process_emails call has invoked, in order
    json_products,        \* extract_products_from_email's response
    products_json_string, \* read_csv_columns' result, "" when the read failed
    matched_products,     \* match_products_with_costs' response
    invoice,              \* what the last generate_invoice_pdf call did
    disk,                 \* id of the message whose invoice.pdf is on disk, 0 when none
    smtp,                 \* the session of the last send_email_with_pdf call
    sent                  \* per message id, the invoices dispatched for it so far

vars == <<pc, crashed, runs, imap_open, msgs, parts, cur, calls, json_products,
          products_json_string, matched_products, invoice, disk, smtp, sent>>

\* the locals of one process_emails call
locals == <<msgs, parts, cur, json_products, products_json_string,
            matched_products, invoice>>

NoInvoice == Raised("none", "idle", FALSE)

\* fresh locals at the start of a process_emails call
FreshLocals ==
    /\ msgs' = <<>>
    /\ parts' = <<>>
    /\ cur' = 0
    /\ json_products' = Prose
    /\ products_json_string' = ""
    /\ matched_products' = Prose
    /\ invoice' = NoInvoice

Init ==
    /\ pc = "main"
    /\ crashed = "none"
    /\ runs = 1
    /\ imap_open = 0
    /\ msgs = <<>>
    /\ parts = <<>>
    /\ cur = 0
    /\ calls = <<>>
    /\ json_products = Prose
    /\ products_json_string = ""
    /\ matched_products = Prose
    /\ invoice = NoInvoice
    /\ disk = 0
    /\ smtp = "none"
    /\ sent = [id \in 1..MaxMsgs |-> 0]

\* an exception nobody catches: process_emails and main have no try
Raise(call) ==
    /\ pc' = "crashed"
    /\ crashed' = call

(* --------------------------- gmail.py ---------------------------------- *)
\* main calls process_emails, which calls connect_to_email; a failure to
\* connect or to log in is caught there and gives None, and process_emails returns
connect_to_email ==
    /\ pc = "main"
    /\ FreshLocals
    /\ calls' = <<"connect_to_email">>
    /\ \E ok \in BOOLEAN :
          /\ imap_open' = IF ok THEN imap_open + 1 ELSE imap_open
          /\ pc' = IF ok THEN "fetch" ELSE "sleep"
    /\ UNCHANGED <<crashed, runs, disk, smtp, sent>>

\* one fetched message per id the search gave, the ids reversed
Fetched(n, data) ==
    [i \in 1..n |-> [id |-> n + 1 - i, data |-> IF i = 1 THEN data ELSE UsualData]]

\* fetch_emails with a logout on the path that finds nothing: the session is
\* released before process_emails returns
fetch_emails_logout ==
    /\ pc = "fetch"
    /\ calls' = Append(calls, "fetch_emails")
    /\ \E failed \in BOOLEAN, n \in 0..MaxMsgs, data \in DataShapes :
          /\ msgs' = IF failed THEN <<>> ELSE Fetched(n, data)
          /\ IF msgs' = <<>>
             THEN pc' = "sleep" /\ parts' = <<>> /\ cur' = 0
             ELSE pc' = "loop" /\ parts' = msgs'[1].data /\ cur' = msgs'[1].id
          /\ imap_open' = IF msgs' = <<>> THEN imap_open - 1 ELSE imap_open
    /\ UNCHANGED <<crashed, runs, json_products, products_json_string,
                   matched_products, invoice, disk, smtp, sent>>

\* fetch_emails: any exception is caught and gives []; process_emails returns
\* when the list is empty, else it takes msgs[0:1]
fetch_emails ==
    /\ pc = "fetch"
    /\ calls' = Append(calls, "fetch_emails")
    /\ \E failed \in BOOLEAN, n \in 0..MaxMsgs, data \in DataShapes :
          /\ msgs' = IF failed THEN <<>> ELSE Fetched(n, data)
          /\ IF msgs' = <<>>
             THEN pc' = "sleep" /\ parts' = <<>> /\ cur' = 0
             ELSE pc' = "loop" /\ parts' = msgs'[1].data /\ cur' = msgs'[1].id
    /\ UNCHANGED <<crashed, runs, imap_open, json_products, products_json_string,
                   matched_products, invoice, disk, smtp, sent>>

(* ---------------------- email_processing.py ---------------------------- *)
\* the loop with a ledger of dispatched messages: a message an invoice was
\* already sent for is passed over
for_sent_in_msg_once ==
    /\ pc = "loop"
    /\ IF parts = <<>>
       THEN pc' = "sleep" /\ parts' = parts
       ELSE /\ parts' = Tail(parts)
            /\ pc' = IF Head(parts) = "tuple" /\ sent[cur] = 0
                     THEN "extract" ELSE "loop"
    /\ json_products' = Prose
    /\ products_json_string' = ""
    /\ matched_products' = Prose
    /\ invoice' = NoInvoice
    /\ UNCHANGED <<crashed, runs, imap_open, msgs, cur, calls, disk, smtp, sent>>

\* for sent in msg: if isinstance(sent, tuple): ...; the function returns
\* when the parts are exhausted.  The locals of the previous iteration are
\* all assigned again before they are read, so each iteration starts them fresh
for_sent_in_msg ==
    /\ pc = "loop"
    /\ IF parts = <<>>
       THEN pc' = "sleep" /\ parts' = parts
       ELSE /\ parts' = Tail(parts)
            /\ pc' = IF Head(parts) = "tuple" THEN "extract" ELSE "loop"
    /\ json_products' = Prose
    /\ products_json_string' = ""
    /\ matched_products' = Prose
    /\ invoice' = NoInvoice
    /\ UNCHANGED <<crashed, runs, imap_open, msgs, cur, calls, disk, smtp, sent>>

\* the call to the model either raises or returns some text
extract_products_from_email ==
    /\ pc = "extract"
    /\ calls' = Append(calls, "extract_products_from_email")
    /\ \/ /\ Raise("extract_products_from_email")
          /\ UNCHANGED json_products
       \/ /\ \E r \in ExtractResponses : json_products' = r
          /\ pc' = "names"
          /\ UNCHANGED crashed
    /\ UNCHANGED <<runs, imap_open, msgs, parts, cur, products_json_string,
                   matched_products, invoice, disk, smtp, sent>>

\* its result is printed and not used
extract_product_names ==
    /\ pc = "names"
    /\ calls' = Append(calls, "extract_product_names")
    /\ \/ Raise("extract_product_names")
       \/ pc' = "csv" /\ UNCHANGED crashed
    /\ UNCHANGED <<runs, imap_open, msgs, parts, cur, json_products,
                   products_json_string, matched_products, invoice, disk, smtp, sent>>

\* read_csv_columns catches every exception and returns ""
read_csv_columns ==
    /\ pc = "csv"
    /\ calls' = Append(calls, "read_csv_columns")
    /\ \E ok \in BOOLEAN : products_json_string' = IF ok THEN "catalog" ELSE ""
    /\ pc' = "match"
    /\ UNCHANGED <<crashed, runs, imap_open, msgs, parts, cur, json_products,
                   matched_products, invoice, disk, smtp, sent>>

\* the matcher's text is returned as it came
match_products_with_costs ==
    /\ pc = "match"
    /\ calls' = Append(calls, "match_products_with_costs")
    /\ \/ /\ Raise("match_products_with_costs")
          /\ UNCHANGED matched_products
       \/ /\ \E r \in PipelineResponses : matched_products' = r
          /\ pc' = "invoice"
          /\ UNCHANGED crashed
    /\ UNCHANGED <<runs, imap_open, msgs, parts, cur, json_products,
                   products_json_string, invoice, disk, smtp, sent>>

\* generate_invoice_pdf(matched_products, output_file="invoice.pdf")
GenerateInvoice ==
    /\ pc = "invoice"
    /\ calls' = Append(calls, "generate_invoice_pdf")
    /\ invoice' = generate_invoice_pdf(matched_products)
    /\ IF invoice'.error = "none"
       THEN pc' = "send" /\ UNCHANGED crashed
       ELSE Raise("generate_invoice_pdf")
    /\ disk' = IF invoice'.saved THEN cur ELSE disk
    /\ UNCHANGED <<runs, imap_open, msgs, parts, cur, json_products,
                   products_json_string, matched_products, smtp, sent>>

\* how send_email_with_pdf can end: smtplib.SMTP(...) raises, or one of
\* starttls, login, sendmail raises, or all succeed and quit is reached
SendOutcomes == {"connect", "starttls", "login", "sendmail", "ok"}

send_email_with_pdf ==
    /\ pc = "send"
    /\ calls' = Append(calls, "send_email_with_pdf")
    /\ \E outcome \in SendOutcomes :
          /\ smtp' = CASE outcome = "connect" -> "none"
                        [] outcome = "ok" -> "closed"
                        [] OTHER -> "open"
          /\ IF outcome = "ok"
             THEN /\ sent' = [sent EXCEPT ![cur] = @ + 1]
                  /\ pc' = "loop"
                  /\ UNCHANGED crashed
             ELSE /\ Raise("send_email_with_pdf")
                  /\ UNCHANGED sent
    /\ UNCHANGED <<runs, imap_open, msgs, parts, cur, json_products,
                   products_json_string, matched_products, invoice, disk>>

(* ------------------------------ app.py --------------------------------- *)
\* time.sleep(CHECKING_INTERVAL): CHECKING_INTERVAL is os.getenv(...), a str
\* or None, and time.sleep raises TypeError on either
sleep ==
    /\ pc = "sleep"
    /\ Raise("sleep")
    /\ UNCHANGED <<runs, imap_open, locals, calls, disk, smtp, sent>>

\* the process is started again; what it left outside itself stays
Restart ==
    /\ pc = "crashed"
    /\ runs < MaxRuns
    /\ runs' = runs + 1
    /\ pc' = "main"
    /\ crashed' = "none"
    /\ imap_open' = 0
    /\ FreshLocals
    /\ calls' = <<>>
    /\ smtp' = "none"
    /\ UNCHANGED <<disk, sent>>

Next ==
    \/ connect_to_email
    \/ fetch_emails
    \/ for_sent_in_msg
    \/ extract_products_from_email
    \/ extract_product_names
    \/ read_csv_columns
    \/ match_products_with_costs
    \/ GenerateInvoice
    \/ send_email_with_pdf
    \/ sleep
    \/ Restart

Spec == Init /\ [][Next]_vars

(* ---------------- generate_invoice_pdf on every response --------------- *)
\* process_emails about to call generate_invoice_pdf on what the matcher returned
InvoiceInit ==
    /\ pc = "invoice"
    /\ crashed = "none"
    /\ runs = 1
    /\ imap_open = 1
    /\ msgs = Fetched(1, UsualData)
    /\ parts = Tail(UsualData)
    /\ cur = 1
    /\ calls = <<"connect_to_email", "fetch_emails", "extract_products_from_email",
                 "extract_product_names", "read_csv_columns",
                 "match_products_with_costs">>
    /\ json_products = Prose
    /\ products_json_string = "catalog"
    /\ matched_products \in MatcherResponses
    /\ invoice = NoInvoice
    /\ disk = 0
    /\ smtp = "none"
    /\ sent = [id \in 1..MaxMsgs |-> 0]

InvoiceNext == GenerateInvoice

InvoiceSpec == InvoiceInit /\ [][InvoiceNext]_vars

(* ============================== claims ================================= *)
Stages == {"extract_products_from_email", "extract_product_names",
           "match_products_with_costs", "generate_invoice_pdf",
           "send_email_with_pdf"}

Called(call) == \E i \in 1..Len(calls) : calls[i] = call

\* the item list generate_invoice_pdf reads out of a response
Productos(response) ==
    IF response.kind = "object" /\ response.has THEN response.productos ELSE <<>>

\* generate_invoice_pdf has been called and has ended
Rendered == invoice.at # "idle"

\* ... and priced every item
Priced == invoice.at \in {"layout", "done"}

\* C1: a failure raised by a stage of the pipeline does not leave
\* process_emails: the process is never ended by a stage's exception.
C1_StageFailureContained == pc = "crashed" => crashed \notin Stages

\* C2: once the catalog read has failed, the run has made no extraction,
\* reconciliation, rendering or dispatch call, and does not raise.
C2_NoCatalogNoPipeline ==
    (Called("read_csv_columns") /\ pc \in {"match", "invoice", "send", "crashed"}
        /\ products_json_string = "")
    => /\ \A call \in Stages : ~Called(call)
       /\ pc # "crashed"

\* C3: when generate_invoice_pdf completes, the table and the subtotal, tax and
\* grand-total lines are all drawn at or above the bottom margin of 50 points.
C3_ContentAboveMargin ==
    invoice.error = "none" /\ Rendered
    => /\ invoice.table_y >= 50
       /\ invoice.subtotal_y >= 50
       /\ invoice.iva_y >= 50
       /\ invoice.total_y >= 50

\* C4: once every item is priced, generate_invoice_pdf raises the overflow error
\* exactly when (N + 1) * 20 exceeds (792 - 110) - 50; 100 items fail, 5 succeed.
C4_OverflowExactly ==
    Priced =>
        LET N == Len(Productos(matched_products))
            overflow == invoice.error = "ValueError" /\ invoice.at = "layout"
        IN  /\ overflow <=> (N + 1) * 20 > (792 - 110) - 50
            /\ ~overflow <=> invoice.error = "none"
            /\ N = 100 => overflow
            /\ N = 5 => invoice.error = "none"

C4_Witness ==
    /\ invoice.at = "layout"
    /\ invoice.error = "ValueError"
    /\ Len(Productos(matched_products)) = 31

\* C5: when generate_invoice_pdf fails (the text is no JSON, or the table
\* overflows, or anything else raises) no document is saved.
C5_NoDocumentOnFailure ==
    Rendered /\ invoice.error # "none" => ~invoice.saved /\ disk = 0

C5_Witness ==
    /\ invoice.at = "layout"
    /\ invoice.canvas
    /\ ~invoice.saved
    /\ disk = 0
    /\ pc = "crashed"

\* C6: whatever the form of an item's quantity and cost, pricing does not raise
\* and the table has one row for every item of the response.
C6_PricingNeverRaises ==
    Rendered /\ matched_products.kind = "object"
    => /\ invoice.at # "pricing"
       /\ Len(invoice.table_data) = Len(Productos(matched_products)) + 1

\* C7: a quantity string that is no integer is priced as 1, a cost string that
\* (the "$" removed) is no decimal is priced as 1.00, and quantity "abc" with
\* cost "$-" gives the line total 1.00 without an error.
C7_Fallbacks ==
    Rendered =>
        LET P == Productos(matched_products)
            one == <<"$", "1", ".", "0", "0">>
        IN  /\ (\A i \in 1..Len(P) : P[i].cantidad.t = "str" /\ P[i].costo.t = "str")
                 => invoice.at # "pricing"
            /\ Priced => \A i \in 1..Len(P) :
                 LET row == invoice.table_data[i + 1]
                 IN  /\ (P[i].cantidad.t = "str" /\ ~IsIntLiteral(P[i].cantidad.s))
                        => row.cantidad = 1
                     /\ (P[i].costo.t = "str"
                            /\ ~IsFloatLiteral(StripDollar(P[i].costo.s)))
                        => row.precio = one
                     /\ (P[i].cantidad = Str(<<"a", "b", "c">>)
                            /\ P[i].costo = Str(<<"$", "-">>))
                        => row.cantidad = 1 /\ row.precio = one /\ row.total = one

C7_Witness ==
    /\ invoice.at = "done"
    /\ \E i \in 1..Len(Productos(matched_products)) :
          /\ Productos(matched_products)[i].cantidad = Str(<<"a", "b", "c">>)
          /\ Productos(matched_products)[i].costo = Str(<<"$", "-">>)

RECURSIVE SumOver(_, _)
SumOver(f, n) == IF n = 0 THEN 0 ELSE f[n] + SumOver(f, n - 1)

\* the full-precision products q_i * c_i of a response, in 1/Scale
Products(P) == [i \in 1..Len(P) |-> CoerceCantidad(P[i]) * CoerceCosto(P[i])]

\* C8: every displayed line total is q*c rounded to 2 decimals, and the
\* subtotal is the sum of the full-precision products q*c, rounded only when
\* it is displayed.
C8_SubtotalFullPrecision ==
    invoice.error = "none" /\ Rendered =>
        LET P == Productos(matched_products)
        IN  /\ \A i \in 1..Len(P) :
                 invoice.table_data[i + 1].total = Money(Products(P)[i])
            /\ invoice.shown[1] = Money(SumOver(Products(P), Len(P)))

\* C9: the subtotal is the sum of the line totals of the table (each quantity *
\* unit cost, to 2 decimals), tax is subtotal * 0.16 and the grand total is
\* subtotal + tax; 5 at 800.00, 3 at 200.00, 2 at 300.00 give 4000.00, 600.00,
\* 600.00, subtotal 5200.00, tax 832.00, grand total 6032.00.
C9_Totals ==
    invoice.error = "none" /\ Rendered =>
        LET P     == Productos(matched_products)
            cents == [i \in 1..Len(P) |-> RoundCents(Products(P)[i])]
            sub   == SumOver(cents, Len(P))
        IN  /\ invoice.subtotal = sub * (Scale \div 100)
            /\ invoice.iva * 25 = invoice.subtotal * 4
            /\ invoice.total = invoice.subtotal + invoice.iva
            /\ invoice.shown = <<Money(invoice.subtotal), Money(invoice.iva),
                                 Money(invoice.total)>>
            /\ P = SampleOrder =>
                 /\ invoice.table_data[2].total = <<"$", "4", "0", "0", "0", ".", "0", "0">>
                 /\ invoice.table_data[3].total = <<"$", "6", "0", "0", ".", "0", "0">>
                 /\ invoice.table_data[4].total = <<"$", "6", "0", "0", ".", "0", "0">>
                 /\ invoice.shown = << <<"$", "5", "2", "0", "0", ".", "0", "0">>,
                                       <<"$", "8", "3", "2", ".", "0", "0">>,
                                       <<"$", "6", "0", "3", "2", ".", "0", "0">> >>

C9_Witness ==
    /\ invoice.at = "done"
    /\ Productos(matched_products) = SampleOrder
    /\ pc = "send"

\* C10: the rows that reach the invoice are exactly the extracted items, one
\* row each, in extraction order, whatever the matcher answered.
C10_RowPerExtractedItem ==
    (invoice.error = "none" /\ Rendered /\ json_products.kind = "object")
    => LET E == Productos(json_products)
       IN  /\ Len(invoice.table_data) = Len(E) + 1
           /\ \A i \in 1..Len(E) : invoice.table_data[i + 1].nombre = E[i].nombre

\* C11: when the extraction response is plain prose, the message fails at
\* extraction: reconciliation has not run for it (pc = "invoice" is the state
\* after match_products_with_costs returned) and neither rendering nor dispatch
\* is reached (pc = "send" is the state after the invoice was saved).
C11_ProseFailsAtExtraction ==
    json_products.kind = "prose" => pc \notin {"invoice", "send"}

\* how often this process_emails call has invoked a stage
Count(call) == Cardinality({i \in 1..Len(calls) : calls[i] = call})

\* the order in which the loop body of process_emails calls its stages
PipelineOrder ==
    <<"extract_products_from_email", "extract_product_names", "read_csv_columns",
      "match_products_with_costs", "generate_invoice_pdf", "send_email_with_pdf">>

\* the stages are called in the fixed order, a stage only after the one before
\* it returned, nothing after a stage that raised, and the dispatch only with
\* the document of the current message saved
OrderedAndGated ==
    /\ \A i \in 3..Len(calls) : calls[i] = PipelineOrder[((i - 3) % 6) + 1]
    /\ crashed \in Stages => calls[Len(calls)] = crashed
    /\ pc = "send" => invoice.error = "none" /\ invoice.saved /\ disk = cur

\* C12: for one incoming message the stages run in the fixed order extract,
\* reconcile, price and render, dispatch, each invoked at most once in a run;
\* a stage runs only if every earlier one completed, and the invoice is sent
\* only after the document of that message was rendered and saved.
C12_FixedOrderAtMostOnce ==
    /\ OrderedAndGated
    /\ \A call \in Stages : Count(call) <= 1

\* C13: in one polling cycle at most one message is driven through the
\* pipeline and at most one invoice is dispatched, whatever the number of
\* matching messages and the structure of the fetched data, and the message
\* processed is the newest match, the last id the search returned.
C13_OnePerCycle ==
    /\ Count("extract_products_from_email") <= 1
    /\ Count("send_email_with_pdf") <= 1
    /\ msgs # <<>> => cur = Len(msgs)

\* C14: the outbound mail session send_email_with_pdf opened is released on
\* every exit path: once the call has returned or raised, no session is open.
C14_SessionReleased == smtp # "open"

\* C15: when the connection, the login or the fetch fails (msgs stays empty),
\* the cycle runs no extraction, rendering or dispatch and raises nothing, and
\* main gets through its sleep to the next cycle: the process never ends there.
C15_FailedCycleGoesOn ==
    (msgs = <<>> /\ pc \in {"sleep", "crashed"}) =>
        /\ \A call \in Stages : ~Called(call)
        /\ pc # "crashed"

\* C16: a response that parses as JSON but does not conform (no "productos"
\* key, or a top level that is not an object) is rejected with an error;
\* it is never rendered and saved as an invoice with zero rows.
C16_NonConformingRejected ==
    (/\ Rendered
     /\ matched_products.kind # "prose"
     /\ ~(matched_products.kind = "object" /\ matched_products.has)) =>
        /\ invoice.error # "none"
        /\ ~invoice.saved

\* C17: zero items is not an error: a conforming response with an empty item
\* list renders a table of the header row alone, subtotal, tax and grand total
\* are all shown as $0.00, and the document is saved.
C17_EmptyOrderRenders ==
    (Rendered /\ matched_products = Object(<<>>)) =>
        /\ invoice.error = "none"
        /\ invoice.table_data = <<HeaderRow>>
        /\ invoice.subtotal = 0 /\ invoice.iva = 0 /\ invoice.total = 0
        /\ \A i \in 1..3 : invoice.shown[i] = <<"$", "0", ".", "0", "0">>
        /\ invoice.saved
        /\ disk = cur

C17_Witness ==
    /\ matched_products = Object(<<>>)
    /\ invoice.at = "done"
    /\ Len(invoice.table_data) = 1
    /\ disk = cur

\* C18: no processed-message state is kept: when the mailbox reports a message
\* again (here after a restart), it is taken through the pipeline again
\* whatever was already dispatched for it, so the number of invoices sent for
\* one message is not bounded by one.  A fetched message always becomes the
\* current one, and a tuple part of it always starts an extraction.
C18_ProcessedAgain ==
    [][/\ (pc = "fetch" /\ msgs' # <<>>) => (pc' = "loop" /\ cur' = msgs'[1].id)
       /\ (pc = "loop" /\ parts # <<>> /\ Head(parts) = "tuple") => pc' = "extract"
       /\ (pc = "send" /\ pc' = "loop") => sent'[cur] = sent[cur] + 1]_vars

\* a message dispatched in an earlier run is dispatched once more in this one
C18_Witness ==
    /\ runs = 2
    /\ cur # 0
    /\ Count("send_email_with_pdf") = 1
    /\ pc = "loop"
    /\ sent[cur] = 2

\* C19: on every successful render the blocks are stacked without overlap: the
\* table, of height (N+1)*20 from its draw offset, lies below the last line of
\* the payee block and within the page, and the totals lie below the table.
C19_BlocksDoNotOverlap ==
    invoice.at = "done" =>
        /\ table_top_y(invoice.table_height) <= pay_to_last_line_y
        /\ table_top_y(invoice.table_height) <= PageHeight
        /\ invoice.table_y >= 0
        /\ invoice.subtotal_y < invoice.table_y

\* the items of P that have both a quantity field and a cost field
WithBothFields(P) ==
    SelectSeq(P, LAMBDA p : p.cantidad.t # "absent" /\ p.costo.t # "absent")

\* C20: an item without a quantity field is priced with quantity 0 and an item
\* without a cost field with cost 0.00 (not with the fallbacks 1 and 1.00), so
\* its line total is 0.00 and it adds nothing to the subtotal.
C20_MissingFieldsPriceZero ==
    Priced =>
        LET P    == Productos(matched_products)
            rows == Tail(invoice.table_data)
            kept == WithBothFields(P)
            zero == <<"$", "0", ".", "0", "0">>
        IN  /\ \A i \in 1..Len(P) :
                  /\ P[i].cantidad.t = "absent" =>
                         rows[i].cantidad = 0 /\ rows[i].total = zero
                  /\ P[i].costo.t = "absent" =>
                         rows[i].precio = zero /\ rows[i].total = zero
            /\ invoice.at = "done" =>
                  invoice.subtotal = SumTotals([i \in 1..Len(kept) |-> TableRow(kept[i])])

C20_Witness ==
    /\ matched_products = Object(<<NoCantidad, NoCosto>>)
    /\ invoice.at = "done"
    /\ invoice.table_data[2].cantidad = 0
    /\ invoice.table_data[2].precio = Money(800 * Scale)
    /\ invoice.table_data[3].cantidad = 5
    /\ invoice.subtotal = 0

====
